---- MODULE Spec2Model ----
(***************************************************************************)
(* Model of facerecognition.py: the enrollment loader load_training_data   *)
(* and the live matcher loop of main.                                       *)
(*                                                                          *)
(* Text (filenames, names) is a sequence of one-character strings.         *)
(* An embedding is a vector of integers, one unit = 0.1; distances are     *)
(* kept squared (unit 0.01), so "d <= t" is checked as "d*d <= t*t", which  *)
(* is the same comparison for non-negative d and t, and argmin over the    *)
(* squares picks the same index as argmin over the distances.              *)
(*                                                                          *)
(* The calls into face_recognition and cv2 are modelled by what they        *)
(* return to this program: the encodings found in an image are an input    *)
(* chosen when the image is read, a library call may raise, os.makedirs    *)
(* is taken to succeed.                                                     *)
(***************************************************************************)
EXTENDS Integers, Sequences, FiniteSets, TLC

VARIABLES
    pc,                    \* position of the program
    error,                 \* the uncaught exception that ended the run, or "none"
    dirExists,             \* os.path.exists(directory)
    created,               \* history: os.makedirs(directory) was called
    listing,               \* os.listdir(directory), in listing order
    i,                     \* number of entries of the listing already iterated
    known_encodings,       \* load_training_data: known_encodings
    known_names,           \* load_training_data: known_names
    encSrc,                \* history: listing index each known_encodings entry came from
    nameSrc,               \* history: listing index each known_names entry came from
    loads,                 \* history: calls of face_recognition.load_image_file
    lastFile,              \* history: what the last loop iteration of the loader did
                           \* (NoFile outside the loop)
    known_face_encodings,  \* main: known_face_encodings
    known_face_names,      \* main: known_face_names
    tolerance,             \* the tolerance handed to compare_faces, in tenths
    acquired,              \* video_capture has been constructed
    opened,                \* the device behind video_capture delivers frames
    releases,              \* calls of video_capture.release()
    reads,                 \* calls of video_capture.read()
    ret,                   \* ret of the last video_capture.read()
    processed,             \* frames that entered the processing of lines 79-108
    rendered,              \* calls of cv2.imshow
    keyChecks,             \* calls of cv2.waitKey
    lastKey,               \* value of the last cv2.waitKey call
    results                \* the match of each face detected in the frame of the
                           \* current iteration (empty between iterations)

vars == <<pc, error, dirExists, created, listing, i, known_encodings, known_names, encSrc,
          nameSrc, loads, lastFile, known_face_encodings, known_face_names,
          tolerance, acquired, opened, releases, reads, ret, processed, rendered,
          keyChecks, lastKey, results>>

loaderVars == <<dirExists, created, listing, i, known_encodings, known_names, encSrc,
                nameSrc, loads, lastFile>>
cameraVars == <<acquired, opened, releases, reads, ret, processed, rendered,
                keyChecks, lastKey, results>>

----------------------------------------------------------------------------
\* Bounds of the model.

MaxFiles == 2        \* entries of the directory listing
MaxImageFaces == 2   \* faces found in one enrollment image
MaxFaces == 1        \* faces found in one frame
MaxFrames == 2       \* frames the camera delivers before the stream ends
MaxTolerance == 6    \* largest tolerance (tenths) tried by SpecMatch

\* tolerance=0.5 of the compare_faces call, in tenths.
TOLERANCE == 5

\* ord('q')
ORD_Q == 113

\* Embeddings of the model: 2-vectors in tenths.  From <<0,0>>: <<3,0>> and
\* <<0,3>> are equally near (0.3), <<5,0>> is exactly at 0.5, and <<0,3>> to
\* <<5,0>> is farther than 0.5.
Embeddings == { <<0, 0>>, <<3, 0>>, <<0, 3>>, <<5, 0>> }

\* Values cv2.waitKey can return: no key, 'q', 'Q', 'q' with a flag above bit 7.
KeyCodes == { -1, 113, 81, 113 + 256 }

SeqsUpTo(S, n) == UNION { [1..k -> S] : k \in 0..n }

----------------------------------------------------------------------------
\* Text.

Lowers == <<"a", "b", "e", "g", "j", "n", "o", "p", "t", "x">>
Uppers == <<"A", "B", "E", "G", "J", "N", "O", "P", "T", "X">>

IsLower(c) == \E k \in DOMAIN Lowers : Lowers[k] = c
IsUpper(c) == \E k \in DOMAIN Uppers : Uppers[k] = c
IsCased(c) == IsLower(c) \/ IsUpper(c)

\* str.lower / str.upper on one character
ToLower(c) == IF IsUpper(c) THEN Lowers[CHOOSE k \in DOMAIN Uppers : Uppers[k] = c] ELSE c
ToUpper(c) == IF IsLower(c) THEN Uppers[CHOOSE k \in DOMAIN Lowers : Lowers[k] = c] ELSE c

\* filename.lower()
lower(s) == [k \in DOMAIN s |-> ToLower(s[k])]

\* str.endswith(suffix)
endswith(s, suffix) ==
    /\ Len(suffix) <= Len(s)
    /\ SubSeq(s, Len(s) - Len(suffix) + 1, Len(s)) = suffix

\* filename.lower().endswith((".jpg", ".png", ".jpeg"))
AcceptAnyFile(filename) == TRUE
AcceptedExtension(filename) ==
    \/ endswith(lower(filename), <<".", "j", "p", "g">>)
    \/ endswith(lower(filename), <<".", "p", "n", "g">>)
    \/ endswith(lower(filename), <<".", "j", "p", "e", "g">>)

\* os.path.splitext(filename)[0]: cut at the last dot, unless only dots precede it
splitextStem(s) ==
    LET dots == { k \in DOMAIN s : s[k] = "." /\ \E j \in 1..(k - 1) : s[j] # "." }
    IN  IF dots = {} THEN s
        ELSE SubSeq(s, 1, (CHOOSE k \in dots : \A j \in dots : j <= k) - 1)

\* str.replace("_", " ")
replaceUnderscores(s) == [k \in DOMAIN s |-> IF s[k] = "_" THEN " " ELSE s[k]]

\* str.title(): a cased character is upper-cased after an uncased one (or at the
\* start) and lower-cased after a cased one
title(s) ==
    [k \in DOMAIN s |->
        IF k > 1 /\ IsCased(s[k - 1]) THEN ToLower(s[k]) ELSE ToUpper(s[k])]

\* name = os.path.splitext(filename)[0].replace("_", " ").title()
DeriveName(filename) == title(replaceUnderscores(splitextStem(filename)))

Unknown == <<"U", "n", "k", "n", "o", "w", "n">>

\* n.txt: a file whose extension is not an image extension
NotAnImage == <<"n", ".", "t", "x", "t">>

\* The file names a listing is drawn from.
FileNames ==
    { <<"a", "_", "b", ".", "j", "p", "g">>,          \* a_b.jpg   -> "A B"
      <<"A", "_", "b", ".", "P", "N", "G">>,          \* A_b.PNG   -> "A B"
      <<"b", "O", "b", ".", "j", "p", "e", "g">>,     \* bOb.jpeg  -> "Bob"
      NotAnImage }                                    \* n.txt

\* Directory listings: file names are distinct within a directory.
Listings ==
    { l \in SeqsUpTo(FileNames, MaxFiles) :
        \A a, b \in DOMAIN l : a # b => l[a] # l[b] }

\* What the library finds in an image file: whether load_image_file can read
\* it, the encodings of the default attempt (std), the encodings of the attempt
\* on the locations found with upsampling (up).  Upsampling finds the faces
\* the default attempt finds, so an image with faces at default sensitivity is
\* listed with up = std.
Images ==
    { [ readable |-> TRUE, std |-> s, up |-> s ] :
        s \in SeqsUpTo(Embeddings, MaxImageFaces) \ {<<>>} }
    \cup
    [ readable : {TRUE}, std : {<<>>}, up : SeqsUpTo(Embeddings, MaxImageFaces) ]
    \cup
    [ readable : {FALSE}, std : {<<>>}, up : {<<>>} ]

----------------------------------------------------------------------------
\* The enrollment loader, load_training_data.

\* Lines 40-48 for one loaded image: the default attempt, and the attempt with
\* upsampling when the default one found nothing.
FileEncodingsRetryAlways(img) ==
    [ encodings |-> img.up, retries |-> 1 ]
FileEncodings(img) ==
    LET first == img.std
    IN  IF first = <<>>
        THEN [ encodings |-> img.up, retries |-> 1 ]
        ELSE [ encodings |-> first, retries |-> 0 ]

\* Lines 50-52: the first encoding and the name are appended together, or
\* nothing is.  t is the table with its history, f the listing index.
AddRecordExtend(t, encodings, name, f) ==
    IF encodings # <<>>
    THEN [ encs |-> t.encs \o encodings,
           names |-> Append(t.names, name),
           encSrc |-> t.encSrc \o [k \in DOMAIN encodings |-> f],
           nameSrc |-> Append(t.nameSrc, f) ]
    ELSE t
AddRecord(t, encodings, name, f) ==
    IF encodings # <<>>
    THEN [ encs |-> Append(t.encs, encodings[1]),
           names |-> Append(t.names, name),
           encSrc |-> Append(t.encSrc, f),
           nameSrc |-> Append(t.nameSrc, f) ]
    ELSE t

\* What is recorded of a list of encodings the library returned: how many, and
\* the first one (as a list of at most one).
Found(encodings) ==
    [ n |-> Len(encodings),
      first |-> IF encodings = <<>> THEN <<>> ELSE <<encodings[1]>> ]

NoFile == [ index |-> 0, accepted |-> FALSE, std |-> Found(<<>>), up |-> Found(<<>>),
            retries |-> 0, added |-> FALSE ]

Init ==
    /\ pc = "load"
    /\ error = "none"
    /\ dirExists \in BOOLEAN
    /\ created = FALSE
    /\ listing \in (IF dirExists THEN Listings ELSE {<<>>})
    /\ i = 0
    /\ known_encodings = <<>>
    /\ known_names = <<>>
    /\ encSrc = <<>>
    /\ nameSrc = <<>>
    /\ loads = 0
    /\ lastFile = NoFile
    /\ known_face_encodings = <<>>
    /\ known_face_names = <<>>
    /\ tolerance = TOLERANCE
    /\ acquired = FALSE
    /\ opened = FALSE
    /\ releases = 0
    /\ reads = 0
    /\ ret = FALSE
    /\ processed = 0
    /\ rendered = 0
    /\ keyChecks = 0
    /\ lastKey = -1
    /\ results = <<>>

\* Lines 22-30, and line 64 for the early return: a missing directory is
\* created and [], [] returned; otherwise the loop over the listing starts.
LoadStart ==
    /\ pc = "load"
    /\ IF ~dirExists
       THEN /\ dirExists' = TRUE
            /\ created' = TRUE
            /\ known_face_encodings' = <<>>
            /\ known_face_names' = <<>>
            /\ pc' = "open"
       ELSE /\ pc' = "files"
            /\ UNCHANGED <<dirExists, created, known_face_encodings, known_face_names>>
    /\ UNCHANGED <<error, listing, i, known_encodings, known_names, encSrc, nameSrc,
                   loads, lastFile, tolerance>>
    /\ UNCHANGED cameraVars

\* Lines 32-56: one iteration of the loop over os.listdir(directory).
LoadFile ==
    /\ pc = "files"
    /\ i < Len(listing)
    /\ LET filename == listing[i + 1]
           name == DeriveName(filename)
       IN  IF ~AcceptedExtension(filename)
           THEN /\ i' = i + 1
                /\ lastFile' = [NoFile EXCEPT !.index = i + 1]
                /\ UNCHANGED <<pc, error, known_encodings, known_names, encSrc,
                               nameSrc, loads>>
           ELSE \E img \in Images :
                  /\ loads' = loads + 1
                  /\ IF ~img.readable
                     THEN \* load_image_file raises; nothing catches it
                          /\ pc' = "crashed"
                          /\ error' = "load_image_file"
                          /\ lastFile' = [NoFile EXCEPT !.index = i + 1,
                                                        !.accepted = TRUE]
                          /\ UNCHANGED <<i, known_encodings, known_names, encSrc,
                                         nameSrc>>
                     ELSE LET e == FileEncodings(img)
                              t == AddRecord([ encs |-> known_encodings,
                                               names |-> known_names,
                                               encSrc |-> encSrc,
                                               nameSrc |-> nameSrc ],
                                             e.encodings, name, i + 1)
                          IN  /\ known_encodings' = t.encs
                              /\ known_names' = t.names
                              /\ encSrc' = t.encSrc
                              /\ nameSrc' = t.nameSrc
                              /\ i' = i + 1
                              /\ lastFile' = [ index |-> i + 1, accepted |-> TRUE,
                                               std |-> Found(img.std),
                                               up |-> Found(img.up),
                                               retries |-> e.retries,
                                               added |-> t.names # known_names ]
                              /\ UNCHANGED <<pc, error>>
    /\ UNCHANGED <<dirExists, created, listing, known_face_encodings,
                   known_face_names, tolerance>>
    /\ UNCHANGED cameraVars

\* Lines 58-59 and 64-67: the loop is over, the two lists go to main.
LoadReturn ==
    /\ pc = "files"
    /\ i = Len(listing)
    /\ known_face_encodings' = known_encodings
    /\ known_face_names' = known_names
    /\ pc' = "open"
    /\ lastFile' = NoFile
    /\ UNCHANGED <<error, dirExists, created, listing, i, known_encodings,
                   known_names, encSrc, nameSrc, loads, tolerance>>
    /\ UNCHANGED cameraVars

----------------------------------------------------------------------------
\* Matching one detected face (lines 91-99).

RECURSIVE SumSq(_, _, _)
SumSq(a, b, k) ==
    IF k = 0 THEN 0 ELSE (a[k] - b[k]) * (a[k] - b[k]) + SumSq(a, b, k - 1)

\* The square of the Euclidean distance np.linalg.norm(a - b), unit 0.01
DistanceSq(a, b) == SumSq(a, b, Len(a))

\* face_recognition.face_distance(known, face): one distance per known
\* encoding, the empty array for no known encoding
face_distance(known, face) == [k \in DOMAIN known |-> DistanceSq(known[k], face)]

\* face_recognition.compare_faces(known, face, tolerance):
\* list(face_distance(known, face) <= tolerance)
compare_faces_strict(known, face, tol) ==
    [k \in DOMAIN known |-> face_distance(known, face)[k] < tol * tol]
compare_faces(known, face, tol) ==
    [k \in DOMAIN known |-> face_distance(known, face)[k] <= tol * tol]

\* np.argmin(d) for a non-empty d: the first index of the minimum
argmin(d) ==
    CHOOSE k \in DOMAIN d :
        /\ \A j \in DOMAIN d : d[k] <= d[j]
        /\ \A j \in 1..(k - 1) : d[j] # d[k]

\* Lines 91-99 for one face.  name is the label; argmin says whether np.argmin
\* was called, distances how many distances to enrolled encodings were
\* computed, raised whether np.argmin raised ValueError (on an empty array).
MatchFaceNoGuard(encs, names, face, tol) ==
    LET matches == compare_faces(encs, face, tol)
        face_distances == face_distance(encs, face)
    IN  IF Len(face_distances) = 0
        THEN [ face |-> face, name |-> Unknown, argmin |-> TRUE,
               distances |-> 0, raised |-> TRUE ]
        ELSE LET best_match_index == argmin(face_distances)
             IN  [ face |-> face,
                   name |-> IF matches[best_match_index]
                            THEN names[best_match_index] ELSE Unknown,
                   argmin |-> TRUE,
                   distances |-> Len(matches) + Len(face_distances),
                   raised |-> FALSE ]
MatchFaceFirstMatch(encs, names, face, tol) ==
    LET matches == compare_faces(encs, face, tol)
        hits == { k \in DOMAIN matches : matches[k] }
    IN  [ face |-> face,
          name |-> IF hits # {}
                   THEN names[CHOOSE k \in hits : \A j \in hits : k <= j]
                   ELSE Unknown,
          argmin |-> FALSE,
          distances |-> Len(matches),
          raised |-> FALSE ]
MatchFace(encs, names, face, tol) ==
    LET matches == compare_faces(encs, face, tol)
        face_distances == face_distance(encs, face)
    IN  IF Len(face_distances) > 0
        THEN LET best_match_index == argmin(face_distances)
             IN  [ face |-> face,
                   name |-> IF matches[best_match_index]
                            THEN names[best_match_index] ELSE Unknown,
                   argmin |-> TRUE,
                   distances |-> Len(matches) + Len(face_distances),
                   raised |-> FALSE ]
        ELSE [ face |-> face, name |-> Unknown, argmin |-> FALSE,
               distances |-> Len(matches) + Len(face_distances),
               raised |-> FALSE ]

----------------------------------------------------------------------------
\* The live matcher, main from line 70.

\* Line 70: cv2.VideoCapture(0) returns a handle whether or not the device
\* could be opened; it does not raise.
OpenWebcam ==
    /\ pc = "open"
    /\ acquired' = TRUE
    /\ opened' \in BOOLEAN
    /\ pc' = "read"
    /\ UNCHANGED <<error, tolerance, known_face_encodings, known_face_names,
                   releases, reads, ret, processed, rendered, keyChecks, lastKey,
                   results>>
    /\ UNCHANGED loaderVars

\* Lines 74-76: read a frame; a failed read breaks out of the loop.  A device
\* that was not opened never delivers, and the stream ends after MaxFrames.
ReadFrameRetry ==
    /\ pc = "read"
    /\ reads <= MaxFrames
    /\ \E r \in (IF opened /\ reads < MaxFrames THEN BOOLEAN ELSE {FALSE}) :
         /\ ret' = r
         /\ reads' = reads + 1
         /\ pc' = IF r THEN "process" ELSE IF reads < MaxFrames THEN "read" ELSE "release"
    /\ UNCHANGED <<error, tolerance, known_face_encodings, known_face_names,
                   acquired, opened, releases, processed, rendered, keyChecks,
                   lastKey, results>>
    /\ UNCHANGED loaderVars
ReadFrame ==
    /\ pc = "read"
    /\ \E r \in (IF opened /\ reads < MaxFrames THEN BOOLEAN ELSE {FALSE}) :
         /\ ret' = r
         /\ reads' = reads + 1
         /\ pc' = IF r THEN "process" ELSE "release"
    /\ UNCHANGED <<error, tolerance, known_face_encodings, known_face_names,
                   acquired, opened, releases, processed, rendered, keyChecks,
                   lastKey, results>>
    /\ UNCHANGED loaderVars

\* Lines 79-108: mirror, convert, detect and encode the faces, match each,
\* draw, show.  Any of the library calls may raise; nothing catches it.
ProcessFrame ==
    /\ pc = "process"
    /\ processed' = processed + 1
    /\ \E faces \in SeqsUpTo(Embeddings, MaxFaces), raises \in BOOLEAN :
         LET res == [k \in DOMAIN faces |->
                       MatchFace(known_face_encodings, known_face_names,
                                 faces[k], tolerance)]
         IN  IF raises
             THEN /\ pc' = "crashed"
                  /\ error' = "library"
                  /\ UNCHANGED <<results, rendered>>
             ELSE IF \E k \in DOMAIN res : res[k].raised
             THEN /\ pc' = "crashed"
                  /\ error' = "ValueError"
                  /\ results' = res
                  /\ UNCHANGED rendered
             ELSE /\ pc' = "waitkey"
                  /\ results' = res
                  /\ rendered' = rendered + 1
                  /\ UNCHANGED error
    /\ UNCHANGED <<tolerance, known_face_encodings, known_face_names, acquired,
                   opened, releases, reads, ret, keyChecks, lastKey>>
    /\ UNCHANGED loaderVars

\* cv2.waitKey(1) & 0xFF == ord('q')
StopNever(key) == FALSE
StopRequested(key) == (key % 256) = ORD_Q

\* Lines 110-111: the stop check of the iteration.
CheckKey ==
    /\ pc = "waitkey"
    /\ \E key \in KeyCodes :
         /\ lastKey' = key
         /\ keyChecks' = keyChecks + 1
         /\ pc' = IF StopRequested(key) THEN "release" ELSE "read"
    /\ results' = <<>>
    /\ UNCHANGED <<error, tolerance, known_face_encodings, known_face_names,
                   acquired, opened, releases, reads, ret, processed, rendered>>
    /\ UNCHANGED loaderVars

\* Lines 113-114: release the device, destroy the windows; main returns.
Release ==
    /\ pc = "release"
    /\ releases' = releases + 1
    /\ pc' = "stopped"
    /\ UNCHANGED <<error, tolerance, known_face_encodings, known_face_names,
                   acquired, opened, reads, ret, processed, rendered, keyChecks,
                   lastKey, results>>
    /\ UNCHANGED loaderVars

Next ==
    \/ LoadStart
    \/ LoadFile
    \/ LoadReturn
    \/ OpenWebcam
    \/ ReadFrame
    \/ ProcessFrame
    \/ CheckKey
    \/ Release

Spec == Init /\ [][Next]_vars

----------------------------------------------------------------------------
\* The matcher alone, for every tolerance: main after load_training_data has
\* returned one enrolled identity, with the tolerance argument of
\* compare_faces drawn from 0 .. MaxTolerance tenths.

InitMatch ==
    /\ pc = "open"
    /\ error = "none"
    /\ dirExists = TRUE
    /\ created = FALSE
    /\ listing \in { l \in Listings : Len(l) = 1 /\ AcceptedExtension(l[1]) }
    /\ i = 1
    /\ known_encodings \in [1..1 -> Embeddings]
    /\ known_names = <<DeriveName(listing[1])>>
    /\ encSrc = <<1>>
    /\ nameSrc = <<1>>
    /\ loads = 1
    /\ lastFile = NoFile
    /\ known_face_encodings = known_encodings
    /\ known_face_names = known_names
    /\ tolerance \in 0..MaxTolerance
    /\ acquired = FALSE
    /\ opened = FALSE
    /\ releases = 0
    /\ reads = 0
    /\ ret = FALSE
    /\ processed = 0
    /\ rendered = 0
    /\ keyChecks = 0
    /\ lastKey = -1
    /\ results = <<>>

NextMatch ==
    \/ OpenWebcam
    \/ ReadFrame
    \/ ProcessFrame
    \/ CheckKey
    \/ Release

SpecMatch == InitMatch /\ [][NextMatch]_vars

----------------------------------------------------------------------------
\* Properties.

\* The first index, in insertion order, of an enrolled encoding at minimum
\* distance from face f (the enrollment set is not empty).
NearestFirst(f) ==
    LET near == { j \in DOMAIN known_face_encodings :
                    \A m \in DOMAIN known_face_encodings :
                        DistanceSq(known_face_encodings[j], f)
                            <= DistanceSq(known_face_encodings[m], f) }
    IN  CHOOSE j \in near : \A m \in near : j <= m

\* C1: with a non-empty enrollment set, every face of a processed frame is
\* labelled with the name of the first enrolled record at minimum distance
\* when that distance is at most 0.5, and with "Unknown" otherwise; a record
\* within tolerance that is not that record never gives the label.
C1_NearestWithinTolerance ==
    (pc = "waitkey" /\ known_face_encodings # <<>>) =>
        \A k \in DOMAIN results :
            LET best == NearestFirst(results[k].face)
            IN  results[k].name =
                    IF DistanceSq(known_face_encodings[best], results[k].face)
                           <= TOLERANCE * TOLERANCE
                    THEN known_face_names[best]
                    ELSE Unknown

\* Two records within tolerance of the face, the second strictly nearer and
\* differently named: the second one's name is the label.
C1_Witness ==
    /\ pc = "waitkey"
    /\ Len(known_face_encodings) = 2
    /\ known_face_names[1] # known_face_names[2]
    /\ \E k \in DOMAIN results :
         /\ DistanceSq(known_face_encodings[1], results[k].face) <= TOLERANCE * TOLERANCE
         /\ DistanceSq(known_face_encodings[2], results[k].face)
                < DistanceSq(known_face_encodings[1], results[k].face)
         /\ results[k].name = known_face_names[2]

\* C2 (as claimed): an image file that cannot be loaded never ends the run of
\* load_training_data.
C2_BadImageNeverAborts ==
    ~(pc = "crashed" /\ error = "load_image_file")

\* C3 (as claimed): the device handle is never released twice, and every run
\* that has ended, normally or by an uncaught error, with the handle acquired
\* has released it exactly once.
C3_ReleasedExactlyOnce ==
    /\ releases <= 1
    /\ (pc \in {"stopped", "crashed"} /\ acquired) => releases = 1

\* C4: with an empty enrollment set every face of every processed frame is
\* labelled "Unknown", no distance to an enrolled encoding is computed,
\* np.argmin is not called and so never raises on an empty array.
C4_EmptySetUnknown ==
    known_face_encodings = <<>> =>
        /\ error # "ValueError"
        /\ \A k \in DOMAIN results :
             /\ results[k].name = Unknown
             /\ results[k].distances = 0
             /\ ~results[k].argmin
             /\ ~results[k].raised

C4_Witness ==
    /\ pc = "waitkey"
    /\ known_face_encodings = <<>>
    /\ Len(results) >= 1
    /\ results[1].name = Unknown

\* After a failed read: the matcher is on its way to STOPPED or there, with no
\* error; every earlier frame was processed and rendered and the failed one
\* was not; the device is released when STOPPED is reached.
AfterFailedRead ==
    (reads > 0 /\ ~ret) =>
        /\ pc \in {"release", "stopped"}
        /\ error = "none"
        /\ processed = reads - 1
        /\ rendered = reads - 1
        /\ releases = (IF pc = "stopped" THEN 1 ELSE 0)

\* C5: every step leads to a state where AfterFailedRead holds (it holds
\* initially, no read having been made), and no read follows a failed read.
C5_FailedReadIsTerminal ==
    [][/\ AfterFailedRead'
       /\ (reads > 0 /\ ~ret) => (reads' = reads /\ ~ret')]_vars

\* The device could not be opened: the first read fails and the matcher has
\* stopped with the device released.
C5_Witness ==
    /\ pc = "stopped"
    /\ ~opened
    /\ reads = 1
    /\ ~ret
    /\ processed = 0
    /\ releases = 1

\* C6: with one enrolled identity, a face whose encoding equals the enrolled
\* one is labelled with the enrolled name, not "Unknown", whatever the
\* tolerance >= 0.
C6_IdenticalAccepted ==
    (pc = "waitkey" /\ Len(known_face_encodings) = 1) =>
        \A k \in DOMAIN results :
            results[k].face = known_face_encodings[1] =>
                /\ results[k].name = known_face_names[1]
                /\ results[k].name # Unknown

C6_Witness ==
    /\ pc = "waitkey"
    /\ tolerance = 0
    /\ Len(known_face_encodings) = 1
    /\ Len(results) = 1
    /\ results[1].face = known_face_encodings[1]
    /\ results[1].name = known_face_names[1]

\* Number of entries of the history sequence src that come from listing index f
From(src, f) == Cardinality({ k \in DOMAIN src : src[k] = f })

\* C7: for a loaded image file the retry with upsampling is made once when the
\* default attempt found no encoding and not at all otherwise; the file adds
\* one record when one of the attempts found an encoding and none when
\* neither did.
C7_RetryOnce ==
    (lastFile.accepted /\ pc = "files") =>
        /\ lastFile.retries = (IF lastFile.std.n = 0 THEN 1 ELSE 0)
        /\ LET found == lastFile.std.n > 0 \/ lastFile.up.n > 0
           IN  /\ lastFile.added = found
               /\ From(nameSrc, lastFile.index) = (IF found THEN 1 ELSE 0)
               /\ From(encSrc, lastFile.index) = (IF found THEN 1 ELSE 0)

\* The second file of the listing has no face in either attempt: it was
\* retried once and skipped, and the record of the first file is all there is.
C7_Witness ==
    /\ pc = "files"
    /\ lastFile.index = 2
    /\ lastFile.accepted
    /\ lastFile.std.n = 0
    /\ lastFile.up.n = 0
    /\ lastFile.retries = 1
    /\ Len(known_names) = 1
    /\ Len(known_encodings) = 1

\* C8: when the directory was missing it has been created, no file was loaded
\* and main holds two empty lists; when the directory existed and holds no
\* image file, load_training_data has returned two empty lists without
\* loading a file and without raising.
C8_EmptyResult ==
    /\ created =>
         /\ dirExists
         /\ loads = 0
         /\ pc \notin {"load", "files"}
         /\ known_face_encodings = <<>>
         /\ known_face_names = <<>>
    /\ (pc \notin {"load", "files"} /\ \A k \in DOMAIN listing : listing[k] = NotAnImage) =>
         /\ known_face_encodings = <<>>
         /\ known_face_names = <<>>
         /\ loads = 0
         /\ error # "load_image_file"

C8_Witness ==
    /\ pc = "open"
    /\ created
    /\ dirExists
    /\ known_face_encodings = <<>>
    /\ known_face_names = <<>>

InLoop == {"read", "process", "waitkey"}

\* At the top of the loop every iteration so far has captured, processed and
\* rendered one frame and made one stop check; at the stop check the frame of
\* the iteration has been rendered and the check not yet made.
IterationCounts ==
    /\ pc = "read" => (reads = rendered /\ reads = processed /\ reads = keyChecks)
    /\ pc = "waitkey" => (rendered = reads /\ keyChecks = reads - 1)

C10_ParallelLists ==
    /\ Len(known_encodings) = Len(known_names)
    /\ encSrc = nameSrc
    /\ Len(nameSrc) = Len(known_names)
    /\ \A k \in DOMAIN nameSrc :
         /\ nameSrc[k] \in 1..i
         /\ known_names[k] = DeriveName(listing[nameSrc[k]])
         /\ \A j \in 1..(k - 1) : nameSrc[j] < nameSrc[k]
    /\ (lastFile.added /\ pc = "files") =>
         known_encodings[Len(known_encodings)] =
             (IF lastFile.std.n > 0 THEN lastFile.std.first[1]
                                    ELSE lastFile.up.first[1])
    /\ pc \in {"open", "read", "process", "waitkey", "release", "stopped"} =>
         /\ known_face_encodings = known_encodings
         /\ known_face_names = known_names

\* Two files with the same derived name, the second with two faces: both
\* records are kept, the second with the first encoding of its file.
C10_Witness ==
    /\ pc = "files"
    /\ Len(known_names) = 2
    /\ known_names[1] = known_names[2]
    /\ lastFile.index = 2
    /\ lastFile.std.n = 2
    /\ known_encodings[2] = lastFile.std.first[1]

====
